---- MODULE Spec2Model ----
(***************************************************************************)
(* Model of the routing core of app.py: turn_direction, build_graph,       *)
(* shortest_path and generate_instructions.                                *)
(*                                                                         *)
(* Strings are sequences of one-character strings, so that lower(),        *)
(* upper(), capitalize(), split("-"), startswith("j") and the string       *)
(* ordering used by the heap are computed, not assumed.                    *)
(*                                                                         *)
(* Coordinates lie on a small integer grid around (0, 0) and consecutive   *)
(* points of a polyline differ along one axis only.  On such points the    *)
(* great-circle length is proportional to the number of grid steps and the *)
(* initial bearing is one of 0, 90, 180, 270.  Distances are fixed-point   *)
(* numbers in half metres, so that int(dist) truncates.                    *)
(***************************************************************************)
EXTENDS Integers, Sequences, FiniteSets, TLC

VARIABLES
    pc,            \* position of the running function
    b1, b2,        \* turn_direction: the two bearings
    diff, turn,    \* turn_direction: signed difference and returned text
    data,          \* build_graph: data["features"]
    fi,            \* build_graph: index of the feature the current loop is at
    nodes,         \* build_graph: the node registry
    graph,         \* the defaultdict(list) adjacency structure
    start, end,    \* shortest_path: arguments
    pq,            \* shortest_path: the heap
    visited,       \* shortest_path: the visited set
    result,        \* shortest_path: the returned pair
    path, geoms,   \* generate_instructions: arguments
    instructions,  \* generate_instructions: the list being built
    i,             \* generate_instructions: loop index (0-based, as in the code)
    prev_coords    \* generate_instructions: polyline of the previous segment

vars == <<pc, b1, b2, diff, turn, data, fi, nodes, graph, start, end, pq,
          visited, result, path, geoms, instructions, i, prev_coords>>

tdVars == <<b1, b2, diff, turn>>
bgVars == <<data, fi, nodes>>
spVars == <<start, end, pq, visited, result>>
giVars == <<path, geoms, instructions, i, prev_coords>>

(***************************************************************************)
(* Program constants                                                       *)
(***************************************************************************)
FullCircle == 360
HalfCircle == 180
TurnOffset == 540
StraightThreshold == 25

(***************************************************************************)
(* Bounds of the model                                                     *)
(***************************************************************************)
\* number of features in a dataset (build_graph)
MaxFeatures == 2
\* number of segments of the graph handed to shortest_path
MaxSegments == 3
\* number of nodes of a path handed to generate_instructions
MaxPathLen == 3

Abs(x) == IF x < 0 THEN -x ELSE x
Min2(x, y) == IF x < y THEN x ELSE y

\* the empty value of the variables a function does not use
Idle == <<>>

(***************************************************************************)
(* Strings                                                                 *)
(***************************************************************************)
Ord ==
    [c \in {"-", "1", "2", "A", "B", "C", "J", "X", "_", "a", "b", "c", "j", "x"} |->
        CASE c = "-" -> 45 [] c = "1" -> 49 [] c = "2" -> 50
          [] c = "A" -> 65 [] c = "B" -> 66 [] c = "C" -> 67
          [] c = "J" -> 74 [] c = "X" -> 88 [] c = "_" -> 95
          [] c = "a" -> 97 [] c = "b" -> 98 [] c = "c" -> 99
          [] c = "j" -> 106 [] c = "x" -> 120]

LowerChar(c) ==
    CASE c = "A" -> "a" [] c = "B" -> "b" [] c = "C" -> "c"
      [] c = "J" -> "j" [] c = "X" -> "x" [] OTHER -> c

UpperChar(c) ==
    CASE c = "a" -> "A" [] c = "b" -> "B" [] c = "c" -> "C"
      [] c = "j" -> "J" [] c = "x" -> "X" [] OTHER -> c

\* str.lower()
Lower(s) == [k \in 1..Len(s) |-> LowerChar(s[k])]
\* str.upper()
Upper(s) == [k \in 1..Len(s) |-> UpperChar(s[k])]
\* str.capitalize(): first character upper-cased, the rest lower-cased
Capitalize(s) == [k \in 1..Len(s) |-> IF k = 1 THEN UpperChar(s[k]) ELSE LowerChar(s[k])]
\* str.startswith(c)
StartsWith(s, c) == Len(s) >= 1 /\ s[1] = c
\* c in s
Contains(s, c) == \E k \in 1..Len(s) : s[k] = c

\* the kind of the elements of a sequence of a kind: a str is made of
\* characters, a path of strs, a point of numbers, a polyline of points, a
\* geometry list of polylines
ElemKind(kind) ==
    CASE kind = "str" -> "char"
      [] kind = "path" -> "str"
      [] kind = "point" -> "number"
      [] kind = "coords" -> "point"
      [] kind = "geoms" -> "coords"

\* Python's x < y. Numbers by value, characters by code point; of two
\* sequences the first position where they differ decides, and a proper
\* prefix is smaller.
RECURSIVE PyLess(_, _, _)
PyLess(kind, x, y) ==
    CASE kind = "number" -> x < y
      [] kind = "char" -> Ord[x] < Ord[y]
      [] OTHER ->
           \E k \in 1..(Min2(Len(x), Len(y)) + 1) :
               /\ \A m \in 1..(k - 1) : x[m] = y[m]
               /\ \/ k = Len(x) + 1 /\ k <= Len(y)
                  \/ /\ k <= Len(x) /\ k <= Len(y)
                     /\ x[k] # y[k]
                     /\ PyLess(ElemKind(kind), x[k], y[k])

StrLess(s, t) == PyLess("str", s, t)

(***************************************************************************)
(* Geo helpers                                                             *)
(***************************************************************************)
\* haversine(a, b) for grid points that differ along one axis: the length
\* is proportional to the number of grid steps (3 half metres a step).
haversine(a, b) == 3 * (Abs(a[1] - b[1]) + Abs(a[2] - b[2]))

\* int(dist) of a non-negative distance given in half metres
IntOf(d) == d \div 2

\* bearing(a, b) for grid points that differ along one axis ([lon, lat]):
\* north 0, east 90, south 180, west 270; atan2(0, 0) = 0 for equal points.
bearing(a, b) ==
    CASE b[1] = a[1] /\ b[2] >= a[2] -> 0
      [] b[1] > a[1] -> 90
      [] b[1] = a[1] /\ b[2] < a[2] -> 180
      [] b[1] < a[1] -> 270

GoStraight == <<"Go", " ", "straight">>
TurnRight == <<"Turn", " ", "right">>
TurnLeft == <<"Turn", " ", "left">>

\* line 41
AngleDiff(x, y) == ((y - x + TurnOffset) % FullCircle) - HalfCircle

\* faulty variant: the threshold test without abs()
ClassifyNoAbs(d) ==
    IF d < StraightThreshold THEN GoStraight
    ELSE IF d > 0 THEN TurnRight
    ELSE TurnLeft

\* lines 42-47
Classify(d) ==
    IF Abs(d) < StraightThreshold THEN GoStraight
    ELSE IF d > 0 THEN TurnRight
    ELSE TurnLeft

turn_direction(x, y) == Classify(AngleDiff(x, y))

\* turn.lower().replace(" ", "-"), on the words of the text
LowerWord(w) ==
    CASE w = "Go" -> "go" [] w = "Turn" -> "turn" [] OTHER -> w
TurnTag(t) ==
    [k \in 1..Len(t) |-> IF LowerWord(t[k]) = " " THEN "-" ELSE LowerWord(t[k])]

(***************************************************************************)
(* turn_direction called on every pair of integer bearings in [0, 360)     *)
(***************************************************************************)
InitTD ==
    /\ pc = "td_call"
    /\ b1 \in 0..(FullCircle - 1)
    /\ b2 \in 0..(FullCircle - 1)
    /\ diff = 0
    /\ turn = Idle
    /\ data = Idle /\ fi = 0 /\ nodes = Idle /\ graph = Idle
    /\ start = Idle /\ end = Idle /\ pq = Idle /\ visited = {} /\ result = Idle
    /\ path = Idle /\ geoms = Idle /\ instructions = Idle /\ i = 0
    /\ prev_coords = Idle

TD_Call ==
    /\ pc = "td_call"
    /\ diff' = AngleDiff(b1, b2)
    /\ turn' = turn_direction(b1, b2)
    /\ pc' = "td_done"
    /\ UNCHANGED <<b1, b2, graph>>
    /\ UNCHANGED <<bgVars, spVars, giVars>>

NextTD == TD_Call

SpecTD == InitTD /\ [][NextTD]_vars

\* C10 (as stated): the signed difference lies in (-180, 180]: it is never
\* -180.
C10_DiffNeverMinus180 ==
    pc = "td_done" => (diff > -HalfCircle /\ diff <= HalfCircle)

\* C10 (amended): the signed difference is b2 - b1 reduced modulo 360 into
\* the half-open interval [-180, 180): it can be -180 and is never 180; the
\* turn is straight when |diff| < 25, otherwise right when diff is positive
\* and left when it is negative.
C10_DiffRangeAndClass ==
    pc = "td_done" =>
        /\ diff >= -HalfCircle /\ diff < HalfCircle
        /\ \E k \in {-1, 0, 1} : diff = (b2 - b1) + k * FullCircle
        /\ (Abs(diff) < StraightThreshold) => turn = GoStraight
        /\ (Abs(diff) >= StraightThreshold /\ diff > 0) => turn = TurnRight
        /\ (Abs(diff) >= StraightThreshold /\ diff < 0) => turn = TurnLeft

\* C10 witness: opposite bearings give exactly -180, announced as a left turn
C10_Witness ==
    pc = "td_done" /\ b2 - b1 = HalfCircle /\ diff = -HalfCircle /\ turn = TurnLeft

(***************************************************************************)
(* Polylines and the adjacency structure                                   *)
(***************************************************************************)
\* one grid step north
PolyShort == <<<<0, 0>>, <<0, 1>>>>
\* the same two end points joined by a detour of three grid steps
PolyLong == <<<<0, 0>>, <<1, 0>>, <<1, 1>>, <<0, 1>>>>
\* two equal points: a segment of length 0
PolyZero == <<<<0, 0>>, <<0, 0>>>>
\* one grid step east
PolyEast == <<<<0, 0>>, <<1, 0>>>>
\* one grid step west
PolyWest == <<<<0, 0>>, <<-1, 0>>>>

\* dist = 0; for i in range(len(coords)-1): dist += haversine(coords[i], coords[i+1])
RECURSIVE DistUpTo(_, _)
DistUpTo(coords, n) ==
    IF n <= 0 THEN 0
    ELSE DistUpTo(coords, n - 1) + haversine(coords[n], coords[n + 1])
Dist(coords) == DistUpTo(coords, Len(coords) - 1)

\* coords[::-1]
Reverse(coords) == [k \in 1..Len(coords) |-> coords[Len(coords) + 1 - k]]

\* faulty variant: a plain dict, where a missing key raises KeyError
LookupKeyError(g, k) ==
    IF k \in DOMAIN g
    THEN [raised |-> FALSE, value |-> g[k], graph |-> g]
    ELSE [raised |-> TRUE, value |-> <<>>, graph |-> g]

\* graph[k] on a defaultdict(list): a missing key is inserted with an empty
\* list, which is the value returned
Lookup(g, k) ==
    IF k \in DOMAIN g
    THEN [raised |-> FALSE, value |-> g[k], graph |-> g]
    ELSE [raised |-> FALSE, value |-> <<>>, graph |-> g @@ (k :> <<>>)]

\* graph[k].append(edge)
AppendEdge(g, k, edge) ==
    LET g1 == Lookup(g, k).graph
    IN  [g1 EXCEPT ![k] = Append(@, edge)]

\* lines 65-70: the two directed edges of one segment a-b
AddSegment(g, a, b, coords) ==
    LET dist == Dist(coords)
    IN  AppendEdge(AppendEdge(g, a, <<b, dist, coords>>),
                   b, <<a, dist, Reverse(coords)>>)

EmptyGraph == [k \in {} |-> <<>>]

(***************************************************************************)
(* shortest_path                                                           *)
(***************************************************************************)
PathLess(p, q) == PyLess("path", p, q)
GeomsLess(g, h) == PyLess("geoms", g, h)

\* the ordering of the heap's tuples (cost, node, path, geoms)
EntryLess(e, f) ==
    \/ e.cost < f.cost
    \/ /\ e.cost = f.cost
       /\ \/ StrLess(e.node, f.node)
          \/ /\ e.node = f.node
             /\ \/ PathLess(e.path, f.path)
                \/ e.path = f.path /\ GeomsLess(e.geoms, f.geoms)

\* faulty variant: a plain queue, list.pop(0)
PopFirstIndex(q) == 1

\* the position of a smallest entry among the first n
RECURSIVE MinIndexUpTo(_, _)
MinIndexUpTo(q, n) ==
    IF n <= 1 THEN 1
    ELSE LET k == MinIndexUpTo(q, n - 1)
         IN  IF EntryLess(q[n], q[k]) THEN n ELSE k

\* the position of the entry heapq.heappop returns: a smallest one
HeapMinIndex(q) == MinIndexUpTo(q, Len(q))

RemoveAt(q, k) == SubSeq(q, 1, k - 1) \o SubSeq(q, k + 1, Len(q))

\* heapq.heappop(pq)
heappop(q) ==
    LET k == HeapMinIndex(q)
    IN  [item |-> q[k], rest |-> RemoveAt(q, k)]

\* heapq.heappush(pq, e)
heappush(q, e) == Append(q, e)

\* faulty variant: the start node already in the path of the first entry
InitialHeapWithStart(s) == <<[cost |-> 0, node |-> s, path |-> <<s>>, geoms |-> <<>>]>>

\* line 74
InitialHeap(s) == <<[cost |-> 0, node |-> s, path |-> <<>>, geoms |-> <<>>]>>

\* faulty variant: the polyline is stored in the direction opposite to the traversal
NewEntryReversed(cost, p, g, edge) ==
    [cost |-> cost + edge[2], node |-> edge[1], path |-> p,
     geoms |-> Append(g, Reverse(edge[3]))]

\* line 85: (cost+w, nxt, path, geoms+[coords])
NewEntry(cost, p, g, edge) ==
    [cost |-> cost + edge[2], node |-> edge[1], path |-> p,
     geoms |-> Append(g, edge[3])]

\* lines 84-85: one heappush for every edge of the adjacency list, in order
RECURSIVE PushAll(_, _, _, _, _, _)
PushAll(q, adj, n, cost, p, g) ==
    IF n = 0 THEN q
    ELSE heappush(PushAll(q, adj, n - 1, cost, p, g), NewEntry(cost, p, g, adj[n]))

\* return None, None
NoPath == [none |-> TRUE, path |-> <<>>, geoms |-> <<>>]
\* return path, geoms
Found(p, g) == [none |-> FALSE, path |-> p, geoms |-> g]

NodeNames == {<<"a">>, <<"b">>, <<"c">>}
\* a name that no segment mentions
Unknown == <<"x">>
CallNames == NodeNames \cup {Unknown}

\* the sequences over S of length at most n
SeqsUpTo(S, n) == UNION {[1..m -> S] : m \in 0..n}

\* segments as build_graph reads them: "a-b" with its polyline, the end
\* points in alphabetical order
SegmentOptions ==
    {s \in NodeNames \X NodeNames \X {PolyZero, PolyShort, PolyLong} :
        StrLess(s[1], s[2])}

RECURSIVE GraphOfSegments(_, _)
GraphOfSegments(segs, n) ==
    IF n = 0 THEN EmptyGraph
    ELSE AddSegment(GraphOfSegments(segs, n - 1), segs[n][1], segs[n][2], segs[n][3])

\* shortest_path(graph, start, end) on a graph that build_graph returned
InitSP ==
    /\ pc = "sp_loop"
    /\ \E segs \in SeqsUpTo(SegmentOptions, MaxSegments) :
           graph = GraphOfSegments(segs, Len(segs))
    /\ start \in CallNames
    /\ end \in CallNames
    /\ pq = InitialHeap(start)
    /\ visited = {}
    /\ result = NoPath
    /\ b1 = 0 /\ b2 = 0 /\ diff = 0 /\ turn = Idle
    /\ data = Idle /\ fi = 0 /\ nodes = Idle
    /\ path = Idle /\ geoms = Idle /\ instructions = Idle /\ i = 0
    /\ prev_coords = Idle

\* lines 76-79: the popped node was finalized before; continue
SP_PopVisited ==
    /\ pc = "sp_loop"
    /\ pq # <<>>
    /\ LET popped == heappop(pq)
       IN  /\ popped.item.node \in visited
           /\ pq' = popped.rest
    /\ UNCHANGED <<pc, graph, start, end, visited, result>>
    /\ UNCHANGED <<tdVars, bgVars, giVars>>

\* lines 76-82: the popped node is the destination; return path, geoms
SP_PopReturn ==
    /\ pc = "sp_loop"
    /\ pq # <<>>
    /\ LET popped == heappop(pq)
           node == popped.item.node
       IN  /\ node \notin visited
           /\ node = end
           /\ pq' = popped.rest
           /\ result' = Found(Append(popped.item.path, node), popped.item.geoms)
           /\ pc' = "sp_done"
    /\ UNCHANGED <<graph, start, end, visited>>
    /\ UNCHANGED <<tdVars, bgVars, giVars>>

\* lines 76-85: the popped node is finalized and its edges are pushed
SP_PopExpand ==
    /\ pc = "sp_loop"
    /\ pq # <<>>
    /\ LET popped == heappop(pq)
           node == popped.item.node
           p == Append(popped.item.path, node)
           got == Lookup(graph, node)
       IN  /\ node \notin visited
           /\ node # end
           /\ visited' = visited \cup {node}
           /\ graph' = got.graph
           /\ IF got.raised
              THEN pc' = "sp_raised" /\ pq' = popped.rest
              ELSE /\ pc' = "sp_loop"
                   /\ pq' = PushAll(popped.rest, got.value, Len(got.value),
                                    popped.item.cost, p, popped.item.geoms)
    /\ UNCHANGED <<start, end, result>>
    /\ UNCHANGED <<tdVars, bgVars, giVars>>

\* line 86: the heap is empty; return None, None
SP_Exhaust ==
    /\ pc = "sp_loop"
    /\ pq = <<>>
    /\ result' = NoPath
    /\ pc' = "sp_done"
    /\ UNCHANGED <<graph, start, end, pq, visited>>
    /\ UNCHANGED <<tdVars, bgVars, giVars>>

NextSP == SP_PopVisited \/ SP_PopReturn \/ SP_PopExpand \/ SP_Exhaust

SpecSP == InitSP /\ [][NextSP]_vars

(***************************************************************************)
(* Properties of shortest_path                                             *)
(***************************************************************************)
Range(s) == {s[k] : k \in DOMAIN s}

EdgesFromTo(g, u, v) ==
    IF u \in DOMAIN g THEN {e \in Range(g[u]) : e[1] = v} ELSE {}

GraphNodes(g) == DOMAIN g \cup UNION {{e[1] : e \in Range(g[u])} : u \in DOMAIN g}

\* every loop-free chain of edges from s to e, by enumeration
SimplePaths(g, s, e) ==
    {p \in UNION {[1..n -> GraphNodes(g)] : n \in 1..Cardinality(GraphNodes(g))} :
        /\ p[1] = s
        /\ p[Len(p)] = e
        /\ \A k, m \in 1..Len(p) : k # m => p[k] # p[m]
        /\ \A k \in 1..(Len(p) - 1) : EdgesFromTo(g, p[k], p[k + 1]) # {}}

MinOf(S) == CHOOSE x \in S : \A y \in S : x <= y

RECURSIVE CheapestUpTo(_, _, _)
CheapestUpTo(g, p, n) ==
    IF n <= 0 THEN 0
    ELSE CheapestUpTo(g, p, n - 1)
         + MinOf({e[2] : e \in EdgesFromTo(g, p[n], p[n + 1])})

\* the least summed weight over all paths from s to e, by enumeration
BruteForceDist(g, s, e) ==
    MinOf({CheapestUpTo(g, p, Len(p) - 1) : p \in SimplePaths(g, s, e)})

\* the summed weight of the edges a returned (path, geoms) pair traverses
RECURSIVE WeightUpTo(_, _, _, _)
WeightUpTo(g, p, gs, n) ==
    IF n <= 0 THEN 0
    ELSE WeightUpTo(g, p, gs, n - 1)
         + MinOf({e[2] : e \in {f \in EdgesFromTo(g, p[n], p[n + 1]) : f[3] = gs[n]}})

AllPositive(g) == \A u \in DOMAIN g : \A e \in Range(g[u]) : e[2] > 0

\* C1: with all-positive weights and end reachable from start, a path is
\* returned and the summed weight of its edges is the least summed weight over
\* all paths from start to end.
C1_Optimal ==
    (pc = "sp_done" /\ AllPositive(graph) /\ SimplePaths(graph, start, end) # {}) =>
        /\ ~result.none
        /\ WeightUpTo(graph, result.path, result.geoms, Len(result.geoms))
               = BruteForceDist(graph, start, end)

\* C1 witness: a two-edge path is returned although a direct, heavier edge
\* from start to end exists
C1_Witness ==
    /\ pc = "sp_done" /\ AllPositive(graph) /\ ~result.none
    /\ Len(result.path) = 3
    /\ EdgesFromTo(graph, start, end) # {}

\* C2: start and end distinct with no chain of edges from start to end: the
\* call does not end by raising; it ends by returning (None, None) with the
\* heap exhausted.
C2_NoPath ==
    (pc \in {"sp_done", "sp_raised"} /\ start # end
        /\ SimplePaths(graph, start, end) = {}) =>
        (pc = "sp_done" /\ result = NoPath /\ pq = <<>>)

\* C2 witness: start has edges, every node reachable from it was expanded,
\* and the search ended with (None, None)
C2_Witness ==
    /\ pc = "sp_done" /\ start # end /\ result = NoPath /\ pq = <<>>
    /\ start \in DOMAIN graph /\ graph[start] # <<>>
    /\ Cardinality(visited) >= 2 /\ end \notin visited

\* C3 (as stated): whenever start or end is not a key of the graph, the
\* result is (None, None), also when start equals end.
C3_UnknownGivesNoPath ==
    (pc = "sp_done" /\ (start \notin DOMAIN graph \/ end \notin DOMAIN graph)) =>
        result = NoPath

\* C4: for a known node x, shortest_path(graph, x, x) returns ([x], []) on
\* the first pop, with no node expanded and nothing pushed.
C4_SelfPath ==
    (start = end /\ start \in DOMAIN graph) =>
        /\ pc = "sp_loop" => (pq = InitialHeap(start) /\ visited = {})
        /\ pc = "sp_done" =>
              (result = Found(<<start>>, <<>>) /\ visited = {} /\ pq = <<>>)
        /\ pc \in {"sp_loop", "sp_done"}

\* C4 witness: a self-path was returned for a node that has outgoing edges
C4_Witness ==
    /\ pc = "sp_done" /\ start = end /\ start \in DOMAIN graph
    /\ graph[start] # <<>>
    /\ result = Found(<<start>>, <<>>)

\* C8 (as stated): shortest_path leaves the graph's key set and every
\* adjacency list as they were.
C8_GraphNotMutated == [][graph' = graph]_vars

\* C9: a returned path starts at start, ends at end, repeats no node, comes
\* with one polyline per traversed edge, and every polyline is that of an edge
\* of the graph from path[i] to path[i+1].
C9_WellFormed ==
    (pc = "sp_done" /\ ~result.none) =>
        LET p == result.path
            gs == result.geoms
        IN  /\ Len(p) >= 1
            /\ p[1] = start
            /\ p[Len(p)] = end
            /\ \A k, m \in 1..Len(p) : k # m => p[k] # p[m]
            /\ Len(gs) = Len(p) - 1
            /\ \A k \in 1..Len(gs) :
                   \E e \in EdgesFromTo(graph, p[k], p[k + 1]) : e[3] = gs[k]

\* C9 witness: a path over three nodes was returned
C9_Witness ==
    pc = "sp_done" /\ ~result.none /\ Len(result.path) = 3 /\ Len(result.geoms) = 2

(***************************************************************************)
(* build_graph                                                             *)
(***************************************************************************)
\* the position of the first sep in s, or 0
RECURSIVE FindFrom(_, _, _)
FindFrom(s, sep, k) ==
    IF k > Len(s) THEN 0
    ELSE IF s[k] = sep THEN k
    ELSE FindFrom(s, sep, k + 1)

\* str.split(sep): the pieces between the separators, every one of them
RECURSIVE Split(_, _)
Split(s, sep) ==
    LET k == FindFrom(s, sep, 1)
    IN  IF k = 0 THEN <<s>>
        ELSE <<SubSeq(s, 1, k - 1)>> \o Split(SubSeq(s, k + 1, Len(s)), sep)

PointFeature(name, coord) ==
    [type |-> "Point", name |-> name, coordinates |-> coord]
LineFeature(name, coords) ==
    [type |-> "LineString", name |-> name, coordinates |-> coords]

\* the features a dataset is made of: two landmarks, one of them declared in
\* upper case and at two places, and segments named with one separator, with
\* the wrong separator and with two separators
FeatureOptions ==
    {PointFeature(<<"A">>, <<0, 0>>), PointFeature(<<"a">>, <<1, 0>>),
     PointFeature(<<"b">>, <<0, 1>>)}
    \cup {LineFeature(n, c) :
            n \in {<<"A", "-", "b">>, <<"b", "-", "c">>, <<"a", "_", "b">>,
                   <<"a", "-", "b", "-", "c">>},
            c \in {PolyShort, PolyLong}}

\* lines 50-53: the file is loaded; graph and nodes are empty
InitBG ==
    /\ pc = "bg_points"
    /\ data \in SeqsUpTo(FeatureOptions, MaxFeatures)
    /\ fi = 1
    /\ nodes = EmptyGraph
    /\ graph = EmptyGraph
    /\ b1 = 0 /\ b2 = 0 /\ diff = 0 /\ turn = Idle
    /\ start = Idle /\ end = Idle /\ pq = Idle /\ visited = {} /\ result = Idle
    /\ path = Idle /\ geoms = Idle /\ instructions = Idle /\ i = 0
    /\ prev_coords = Idle

\* nodes[name] = coord
SetItem(d, k, v) == [x \in DOMAIN d \cup {k} |-> IF x = k THEN v ELSE d[x]]

\* lines 54-58: a Point feature is registered under its lower-cased name
BG_Point ==
    /\ pc = "bg_points"
    /\ fi <= Len(data)
    /\ data[fi].type = "Point"
    /\ nodes' = SetItem(nodes, Lower(data[fi].name), data[fi].coordinates)
    /\ fi' = fi + 1
    /\ UNCHANGED <<pc, data, graph>>
    /\ UNCHANGED <<tdVars, spVars, giVars>>

\* lines 54-55: the first loop passes over a feature that is no Point
BG_NotPoint ==
    /\ pc = "bg_points"
    /\ fi <= Len(data)
    /\ data[fi].type # "Point"
    /\ fi' = fi + 1
    /\ UNCHANGED <<pc, data, nodes, graph>>
    /\ UNCHANGED <<tdVars, spVars, giVars>>

\* line 59: the first loop is over, the second starts
BG_SecondLoop ==
    /\ pc = "bg_points"
    /\ fi > Len(data)
    /\ pc' = "bg_lines"
    /\ fi' = 1
    /\ UNCHANGED <<data, nodes, graph>>
    /\ UNCHANGED <<tdVars, spVars, giVars>>

\* lines 59-60: the second loop passes over a feature that is no LineString
BG_NotLine ==
    /\ pc = "bg_lines"
    /\ fi <= Len(data)
    /\ data[fi].type # "LineString"
    /\ fi' = fi + 1
    /\ UNCHANGED <<pc, data, nodes, graph>>
    /\ UNCHANGED <<tdVars, spVars, giVars>>

\* lines 60-63: a LineString whose name has no "-": continue
BG_NoSeparator ==
    /\ pc = "bg_lines"
    /\ fi <= Len(data)
    /\ data[fi].type = "LineString"
    /\ ~Contains(Lower(data[fi].name), "-")
    /\ fi' = fi + 1
    /\ UNCHANGED <<pc, data, nodes, graph>>
    /\ UNCHANGED <<tdVars, spVars, giVars>>

\* lines 60-70: a LineString whose name has a "-": a, b = name.split("-")
\* raises ValueError unless there are exactly two pieces; otherwise the two
\* directed edges are appended
BG_Segment ==
    /\ pc = "bg_lines"
    /\ fi <= Len(data)
    /\ data[fi].type = "LineString"
    /\ Contains(Lower(data[fi].name), "-")
    /\ LET parts == Split(Lower(data[fi].name), "-")
       IN  IF Len(parts) # 2
           THEN pc' = "bg_raised" /\ UNCHANGED <<fi, graph>>
           ELSE /\ graph' = AddSegment(graph, parts[1], parts[2], data[fi].coordinates)
                /\ fi' = fi + 1
                /\ pc' = pc
    /\ UNCHANGED <<data, nodes>>
    /\ UNCHANGED <<tdVars, spVars, giVars>>

\* line 71: return graph, nodes
BG_Return ==
    /\ pc = "bg_lines"
    /\ fi > Len(data)
    /\ pc' = "bg_done"
    /\ UNCHANGED <<data, fi, nodes, graph>>
    /\ UNCHANGED <<tdVars, spVars, giVars>>

NextBG ==
    \/ BG_Point \/ BG_NotPoint \/ BG_SecondLoop
    \/ BG_NotLine \/ BG_NoSeparator \/ BG_Segment \/ BG_Return

SpecBG == InitBG /\ [][NextBG]_vars

\* the adjacency list of k, empty when k is no key
AdjOf(g, k) == IF k \in DOMAIN g THEN g[k] ELSE <<>>

\* the number of directed edges of g
RECURSIVE EdgeCount(_, _)
EdgeCount(g, ks) ==
    IF ks = {} THEN 0
    ELSE LET k == CHOOSE x \in ks : TRUE
         IN  Len(g[k]) + EdgeCount(g, ks \ {k})

\* g2 is g1 with the edge a->b (polyline c) and the edge b->a (c reversed)
\* appended, both of weight w, and nothing else changed
TwoEdgesAdded(g1, g2, a, b, c, w) ==
    /\ DOMAIN g2 = DOMAIN g1 \cup {a, b}
    /\ \A k \in DOMAIN g2 \ {a, b} : g2[k] = g1[k]
    /\ IF a = b
       THEN g2[a] = AdjOf(g1, a) \o <<<<b, w, c>>, <<a, w, Reverse(c)>>>>
       ELSE /\ g2[a] = Append(AdjOf(g1, a), <<b, w, c>>)
            /\ g2[b] = Append(AdjOf(g1, b), <<a, w, Reverse(c)>>)

\* C7 (as stated): every LineString whose lower-cased name contains "-" is
\* split into two end points a and b and adds exactly the edges a->b (polyline
\* as given) and b->a (polyline reversed) of equal weight; a LineString whose
\* name has no "-" adds no edge.
C7_TwoEdgesPerSegment ==
    [][(pc = "bg_lines" /\ fi <= Len(data) /\ data[fi].type = "LineString") =>
          LET name == Lower(data[fi].name)
              c == data[fi].coordinates
          IN  IF Contains(name, "-")
              THEN /\ pc' # "bg_raised"
                   /\ \E k \in 1..Len(name), w \in 0..Dist(c) :
                          /\ name[k] = "-"
                          /\ TwoEdgesAdded(graph, graph',
                                           SubSeq(name, 1, k - 1),
                                           SubSeq(name, k + 1, Len(name)), c, w)
                   /\ EdgeCount(graph', DOMAIN graph')
                          = EdgeCount(graph, DOMAIN graph) + 2
              ELSE graph' = graph]_vars

\* C7, restricted to names with exactly one "-": what build_graph does on them
C7_OneSeparator ==
    [][(pc = "bg_lines" /\ fi <= Len(data) /\ data[fi].type = "LineString"
          /\ Cardinality({k \in 1..Len(data[fi].name) : data[fi].name[k] = "-"}) = 1) =>
          LET name == Lower(data[fi].name)
              c == data[fi].coordinates
          IN  /\ pc' # "bg_raised"
              /\ \E k \in 1..Len(name), w \in 0..Dist(c) :
                     /\ name[k] = "-"
                     /\ TwoEdgesAdded(graph, graph',
                                      SubSeq(name, 1, k - 1),
                                      SubSeq(name, k + 1, Len(name)), c, w)
              /\ EdgeCount(graph', DOMAIN graph')
                     = EdgeCount(graph, DOMAIN graph) + 2]_vars

(***************************************************************************)
(* generate_instructions                                                   *)
(***************************************************************************)
\* next_node.startswith("j")
IsJunction(name) == StartsWith(name, "j")

\* a junction is shown in upper case, a landmark capitalized
ShownUpper(name) == Upper(name)
ShownCapital(name) == Capitalize(name)

\* line 90
StartInstr(p) ==
    [text |-> <<"Start at ">> \o Capitalize(p[1]), type |-> "start"]

\* faulty variant: the last instruction tagged with another type
DestInstrArrive(p) ==
    [text |-> <<"Reach ">> \o Upper(p[Len(p)]), type |-> "arrive"]

\* line 182
DestInstr(p) ==
    [text |-> <<"Reach ">> \o Upper(p[Len(p)]), type |-> "destination"]

\* the four "straight" dictionaries: f"{lead} {int(dist)} m{link}{shown}"
StraightInstr(lead, d, link, shown, next_node) ==
    [text |-> <<lead, ToString(IntOf(d)), link>> \o shown,
     distance |-> IntOf(d), type |-> "straight", landmark |-> next_node]

\* lines 126-130
TurnInstr(current_node, t) ==
    [text |-> <<"At ">> \o Upper(current_node) \o <<", ">> \o t,
     type |-> "turn", turn_direction |-> TurnTag(t)]

\* the two "turn-straight" dictionaries
TurnStraightInstr(t, d, link, shown, next_node) ==
    [text |-> t \o <<" and go ", ToString(IntOf(d)), link>> \o shown,
     distance |-> IntOf(d), type |-> "turn-straight",
     turn_direction |-> TurnTag(t), landmark |-> next_node]

\* lines 102-116: the first segment
FirstSegment(d, next_node) ==
    IF IsJunction(next_node)
    THEN <<StraightInstr("Continue straight ", d, " m to ", ShownUpper(next_node), next_node)>>
    ELSE <<StraightInstr("Go straight ", d, " m and cross ", ShownCapital(next_node), next_node)>>

\* lines 146-178: a later segment that leaves a landmark
DepartLandmark(current_node, t, d, next_node) ==
    IF t = GoStraight
    THEN IF IsJunction(next_node)
         THEN <<StraightInstr("Continue straight ", d, " m to ",
                              ShownUpper(next_node), next_node)>>
         ELSE <<StraightInstr("Continue straight ", d, " m and cross ",
                              ShownCapital(next_node), next_node)>>
    ELSE IF IsJunction(next_node)
         THEN <<TurnStraightInstr(t, d, " m to ", ShownUpper(next_node), next_node)>>
         ELSE <<TurnStraightInstr(t, d, " m crossing ", ShownCapital(next_node), next_node)>>

\* faulty variant: one rule for every node, junctions merged like landmarks
DepartJunctionMerged(current_node, t, d, next_node) ==
    DepartLandmark(current_node, t, d, next_node)

\* lines 125-145: a later segment that leaves a junction
DepartJunction(current_node, t, d, next_node) ==
    <<TurnInstr(current_node, t),
      IF IsJunction(next_node)
      THEN StraightInstr("Go straight ", d, " m to ", ShownUpper(next_node), next_node)
      ELSE StraightInstr("Go straight ", d, " m and cross ",
                         ShownCapital(next_node), next_node)>>

\* lines 118-120: the turn between the end of prev and the start of coords
TurnBetween(prev, coords) ==
    turn_direction(bearing(prev[Len(prev) - 1], prev[Len(prev)]),
                   bearing(coords[1], coords[2]))

GINames == {<<"a">>, <<"b">>, <<"j", "1">>, <<"j", "2">>}
GIPolylines == {PolyShort, PolyLong, PolyEast, PolyWest}

\* the sequences over S without repetition, of length 1..n
PathsUpTo(S, n) ==
    {p \in UNION {[1..m -> S] : m \in 1..n} :
        \A k, m \in 1..Len(p) : k # m => p[k] # p[m]}

\* generate_instructions(path, geoms) as get_route calls it: a path without
\* repeated nodes and one polyline (of at least two points) per edge
InitGI ==
    /\ pc = "gi_start"
    /\ path \in PathsUpTo(GINames, MaxPathLen)
    /\ geoms \in [1..(Len(path) - 1) -> GIPolylines]
    /\ instructions = <<>>
    /\ i = 0
    /\ prev_coords = Idle
    /\ b1 = 0 /\ b2 = 0 /\ diff = 0 /\ turn = Idle
    /\ data = Idle /\ fi = 0 /\ nodes = Idle /\ graph = Idle
    /\ start = Idle /\ end = Idle /\ pq = Idle /\ visited = {} /\ result = Idle

\* lines 89-92
GI_Start ==
    /\ pc = "gi_start"
    /\ instructions' = <<StartInstr(path)>>
    /\ prev_coords' = Idle
    /\ i' = 0
    /\ pc' = "gi_loop"
    /\ UNCHANGED <<path, geoms, graph>>
    /\ UNCHANGED <<tdVars, bgVars, spVars>>

\* lines 93-116, 180: the iteration i = 0
GI_FirstSegment ==
    /\ pc = "gi_loop"
    /\ i < Len(geoms)
    /\ i = 0
    /\ LET coords == geoms[i + 1]
       IN  /\ instructions' = instructions \o FirstSegment(Dist(coords), path[i + 2])
           /\ prev_coords' = coords
    /\ i' = i + 1
    /\ UNCHANGED <<pc, path, geoms, graph>>
    /\ UNCHANGED <<tdVars, bgVars, spVars>>

\* lines 93-100, 117-145, 180: an iteration i > 0 that leaves a junction
GI_DepartJunction ==
    /\ pc = "gi_loop"
    /\ i < Len(geoms)
    /\ i > 0
    /\ IsJunction(path[i + 1])
    /\ LET coords == geoms[i + 1]
       IN  /\ instructions' = instructions \o
                 DepartJunction(path[i + 1], TurnBetween(prev_coords, coords),
                                Dist(coords), path[i + 2])
           /\ prev_coords' = coords
    /\ i' = i + 1
    /\ UNCHANGED <<pc, path, geoms, graph>>
    /\ UNCHANGED <<tdVars, bgVars, spVars>>

\* lines 93-100, 117-123, 146-180: an iteration i > 0 that leaves a landmark
GI_DepartLandmark ==
    /\ pc = "gi_loop"
    /\ i < Len(geoms)
    /\ i > 0
    /\ ~IsJunction(path[i + 1])
    /\ LET coords == geoms[i + 1]
       IN  /\ instructions' = instructions \o
                 DepartLandmark(path[i + 1], TurnBetween(prev_coords, coords),
                                Dist(coords), path[i + 2])
           /\ prev_coords' = coords
    /\ i' = i + 1
    /\ UNCHANGED <<pc, path, geoms, graph>>
    /\ UNCHANGED <<tdVars, bgVars, spVars>>

\* lines 182-183
GI_Finish ==
    /\ pc = "gi_loop"
    /\ i >= Len(geoms)
    /\ instructions' = Append(instructions, DestInstr(path))
    /\ pc' = "gi_done"
    /\ UNCHANGED <<path, geoms, i, prev_coords, graph>>
    /\ UNCHANGED <<tdVars, bgVars, spVars>>

NextGI ==
    \/ GI_Start \/ GI_FirstSegment \/ GI_DepartJunction
    \/ GI_DepartLandmark \/ GI_Finish

SpecGI == InitGI /\ [][NextGI]_vars

\* C5: the returned list has at least two instructions, the first of type
\* start, the last of type destination, none between them of either type; a
\* single-node path gives exactly these two.
C5_StartAndDestination ==
    pc = "gi_done" =>
        LET n == Len(instructions)
        IN  /\ n >= 2
            /\ instructions[1].type = "start"
            /\ instructions[n].type = "destination"
            /\ \A k \in 2..(n - 1) :
                   instructions[k].type \notin {"start", "destination"}
            /\ Len(path) = 1 => n = 2

\* C5 witness: a path over three nodes got its instructions
C5_Witness ==
    pc = "gi_done" /\ Len(path) = 3 /\ Len(instructions) >= 4

\* C6: an iteration i > 0 that leaves a junction appends exactly two
\* instructions: a turn instruction whose text names the upper-cased junction
\* and that carries a turn_direction tag, then a straight instruction for the
\* new segment; no turn-straight instruction, also when the turn is straight.
C6_JunctionsSplit ==
    [][(pc = "gi_loop" /\ i > 0 /\ i < Len(geoms) /\ path[i + 1][1] = "j") =>
          LET n == Len(instructions)
              junction == path[i + 1]
          IN  /\ Len(instructions') = n + 2
              /\ SubSeq(instructions', 1, n) = instructions
              /\ instructions'[n + 1].type = "turn"
              /\ SubSeq(instructions'[n + 1].text, 2, 1 + Len(junction))
                     = [k \in 1..Len(junction) |-> UpperChar(junction[k])]
              /\ "turn_direction" \in DOMAIN instructions'[n + 1]
              /\ instructions'[n + 1].turn_direction
                     \in {<<"go", "-", "straight">>, <<"turn", "-", "right">>,
                          <<"turn", "-", "left">>}
              /\ instructions'[n + 2].type = "straight"
              /\ instructions'[n + 2].landmark = path[i + 2]]_vars

\* C6 witness: a junction was left without a change of bearing and the turn
\* instruction (go-straight) is followed by a straight instruction
C6_Witness ==
    /\ pc = "gi_done"
    /\ \E k \in 1..(Len(path) - 2) :
           /\ path[k + 1][1] = "j"
           /\ \E m \in 2..(Len(instructions) - 1) :
                  /\ instructions[m].type = "turn"
                  /\ instructions[m].turn_direction = <<"go", "-", "straight">>
                  /\ instructions[m + 1].type = "straight"

====
